---- MODULE Spec2Model ----
(***************************************************************************)
(* Model of src/Protobot.ino: the PS2-controlled AL5D arm sketch.          *)
(*                                                                         *)
(* Number representation.  The sketch computes in 32-bit float.  The model *)
(* computes in integers with fixed scales:                                 *)
(*   lengths      in 1/MM  millimetre   (MM  = 400)                        *)
(*   angles       in 1/DEG degree       (DEG = 1000000)                    *)
(*   Speed        in 1/PCT              (PCT = 100, "1.0 = 100%")          *)
(* Every value the control loop can produce is an exact multiple of these  *)
(* units, so the loop arithmetic below is exact.  deg_to_us and map_float  *)
(* are computed in single precision, rounding as the float operations do.  *)
(* The library calls of set_arm (sin, cos, atan2, acos, sqrt) are computed *)
(* in fixed point; what a build of the sketch computes for a joint         *)
(* position depends on its float library and on the width of its double,   *)
(* and lies within EPS of the fixed-point position: set_arm yields every   *)
(* outcome such a position can lead to.  Likewise its tests for NaN, at    *)
(* the limits of the arm's reach, depend on the rounding of its floats: ik *)
(* yields every result of the tests a build may get.                       *)
(***************************************************************************)
EXTENDS Integers, Sequences, FiniteSets, TLC

VARIABLES
    pc,        \* position of the program: the steps of setup(), "ready" when
               \* setup has returned, "loop" once loop() has run at least once;
               \* in the harnesses, the return statement a call has reached
    Y, Z, GA,  \* committed arm pose (globals, lines 109-111)
    G,         \* gripper jaw opening (line 112)
    Speed,     \* speed scale (line 113)
    servo,     \* last pulse width written to each servo, 0 = never written
    frame,     \* controller state of the last read_gamepad / config_gamepad
    prev,      \* (Y, Z, GA, G, Speed) at the start of the last step
    cand,      \* (y_tmp, z_tmp, ga_tmp) of the last loop() pass, at line 245
    arm_move,  \* the flag of the last loop() pass, as tested at line 245
    writes,    \* writeMicroseconds calls of the last step, in program order
    tones,     \* tone() frequencies of the last step, in program order
    calls,     \* set_arm invocations made by the last step
    args,      \* arguments of the last set_arm call (solver harness)
    ret        \* return value of the last set_arm call, "none" before one

vars == <<pc, Y, Z, GA, G, Speed, servo, frame, prev, cand, arm_move,
          writes, tones, calls, args, ret>>

-----------------------------------------------------------------------------
(* Fixed-point scales *)
MM  == 400
DEG == 1000000
PCT == 100

(* Arm dimensions, lines 17-20, in 1/MM mm *)
BASE_HGT == 32385      \* 80.9625 mm
HUMERUS  == 105410     \* 263.525 mm
ULNA     == 130175     \* 325.4375 mm
GRIPPER  == 29210      \* 73.025 mm

(* Generic servo range, lines 39-44 *)
SERVO_MIN_US  == 600
SERVO_MID_US  == 1500
SERVO_MAX_US  == 2400
SERVO_MIN_DEG == 0 * DEG
SERVO_MID_DEG == 90 * DEG
SERVO_MAX_DEG == 180 * DEG

(* Per-servo limits, lines 48-66 *)
BAS_MIN == 0 * DEG
BAS_MID == 90 * DEG
BAS_MAX == 180 * DEG
SHL_MIN == 20 * DEG
SHL_MID == 81 * DEG
SHL_MAX == 140 * DEG
ELB_MIN == 20 * DEG
ELB_MID == 88 * DEG
ELB_MAX == 165 * DEG
WRI_MIN == 0 * DEG
WRI_MID == 93 * DEG
WRI_MAX == 180 * DEG
GRI_MIN == 25 * DEG
GRI_MID == 90 * DEG
GRI_MAX == 165 * DEG

(* Speed parameters, lines 70-73, in 1/PCT *)
SPEED_MIN       == 50
SPEED_MAX       == 150
SPEED_DEFAULT   == 100
SPEED_INCREMENT == 25

(* Navigation limit, line 78 *)
Y_MIN == 100 * MM

(* PS2 controller characteristics, lines 81-86 *)
JS_MIDPOINT == 128
JS_DEADBAND == 4
JS_IK_SCALE == 50
JS_SCALE    == 100
Z_INCREMENT == 2 * MM
G_INCREMENT == 2 * DEG

(* Tones and return codes, lines 89-95 *)
TONE_READY    == 1000
TONE_IK_ERROR == 200
IK_SUCCESS    == 0
IK_ERROR      == 1

(* Parking positions, lines 98-99 *)
PARK_MIDPOINT == 1
PARK_READY    == 2

(* Ready-To-Run position, lines 103-106 *)
READY_Y  == 170 * MM
READY_Z  == 45 * MM
READY_GA == 0 * DEG
READY_G  == GRI_MID

-----------------------------------------------------------------------------
(* Arduino macros *)
abs(a) == IF a < 0 THEN -a ELSE a
max(a, b) == IF a > b THEN a ELSE b
constrain(amt, low, high) ==
    IF amt < low THEN low ELSE IF amt > high THEN high ELSE amt

(***************************************************************************)
(* Fixed-point helpers standing for float arithmetic.                      *)
(* Bind(e, F) is F(e) with e evaluated once.                               *)
(* MulDivRem(a, b, c) = <<q, r>> with a*b = q*c + r and 0 <= r < c, for    *)
(* a, b >= 0 and 0 < 7*c < 2^31, without forming the product a*b (which    *)
(* may exceed 32-bit integers): b is taken two bits at a time, from the    *)
(* top.                                                                    *)
(***************************************************************************)
Bind(e, F(_)) == CHOOSE r \in {F(v) : v \in {e}} : TRUE

MulStep(qr, a, d, c) ==
    LET r4 == 4 * qr[2] + d * (a % c)
    IN  <<4 * qr[1] + d * (a \div c) + r4 \div c, r4 % c>>

RECURSIVE MulAcc(_, _, _, _, _)
MulAcc(qr, a, b, c, i) ==
    IF i < 0 THEN qr
    ELSE Bind(MulStep(qr, a, (b \div 4^i) % 4, c),
              LAMBDA n : MulAcc(n, a, b, c, i - 1))

MulDivRem(a, b, c) == MulAcc(<<0, 0>>, a, b, c, 15)

RECURSIVE GCD(_, _)
GCD(a, b) ==
    IF b = 0 THEN a ELSE Bind(<<b, a % b>>, LAMBDA t : GCD(t[1], t[2]))

MaxInt == (2^30 - 1) + 2^30

(* a*b/c rounded to the nearest integer (half away from zero), for c > 0   *)
(* and any signs of a and b                                                *)
MulDiv(a, b, c) ==
    Bind(<<abs(a), abs(b), c, (a < 0) = (b < 0)>>, LAMBDA t :
    Bind(GCD(t[2], t[3]), LAMBDA g :
    Bind(<<t[2] \div g, t[3] \div g>>, LAMBDA bc :
    Bind(IF bc[1] = 0 THEN <<0, 0>>
         ELSE IF t[1] <= MaxInt \div bc[1]
         THEN <<(t[1] * bc[1]) \div bc[2], (t[1] * bc[1]) % bc[2]>>
         ELSE MulDivRem(t[1], bc[1], bc[2]), LAMBDA m :
    LET q == IF 2 * m[2] >= bc[2] THEN m[1] + 1 ELSE m[1]
    IN  IF t[4] THEN q ELSE -q))))

-----------------------------------------------------------------------------
(***************************************************************************)
(* Single-precision arithmetic, for the float expressions of deg_to_us and *)
(* map_float.  A float is <<m, e>>, standing for m * 2^e, with m = 0 or    *)
(* HID <= |m| < TOP; every operation rounds its exact result to the        *)
(* nearest float, ties to the even mantissa.  Exponents are unbounded: no  *)
(* value of the sketch leaves the normal range.                            *)
(***************************************************************************)
HID == 2^23
TOP == 2^24

(* the magnitude (q + r/d) * 2^e, not zero, widened until q >= HID *)
RECURSIVE widen(_, _, _, _)
widen(q, r, d, e) ==
    IF q >= HID THEN <<q, r, d, e>>
    ELSE Bind(<<2 * q + (IF 2 * r >= d THEN 1 ELSE 0), (2 * r) % d, d, e - 1>>,
              LAMBDA t : widen(t[1], t[2], t[3], t[4]))

(* the same magnitude narrowed until q < TOP *)
RECURSIVE narrow(_, _, _, _)
narrow(q, r, d, e) ==
    IF q < TOP THEN <<q, r, d, e>>
    ELSE Bind(<<q \div 2, (q % 2) * d + r, 2 * d, e + 1>>,
              LAMBDA t : narrow(t[1], t[2], t[3], t[4]))

(* round to nearest, ties to even: the float of sign neg nearest to the    *)
(* magnitude (q + r/d) * 2^e                                               *)
Fpack(neg, q, r, d, e) ==
    Bind(widen(q, r, d, e), LAMBDA w :
    Bind(narrow(w[1], w[2], w[3], w[4]), LAMBDA t :
    Bind(IF 2 * t[2] > t[3] \/ (2 * t[2] = t[3] /\ t[1] % 2 = 1)
         THEN t[1] + 1 ELSE t[1], LAMBDA m :
    Bind(IF m = TOP THEN <<HID, t[4] + 1>> ELSE <<m, t[4]>>, LAMBDA f :
    IF neg THEN <<-f[1], f[2]>> ELSE f))))

(* the float nearest to n / d, d > 0: a literal, or an argument given in   *)
(* 1/d                                                                     *)
F32(n, d) ==
    Bind(<<n, d>>, LAMBDA a :
    IF a[1] = 0 THEN <<0, 0>>
    ELSE Fpack(a[1] < 0, abs(a[1]) \div a[2], abs(a[1]) % a[2], a[2], 0))

Fneg(a) == Bind(a, LAMBDA v : <<-v[1], v[2]>>)

Fmul(a, b) ==
    Bind(<<a, b>>, LAMBDA p :
    IF p[1][1] = 0 \/ p[2][1] = 0 THEN <<0, 0>>
    ELSE Bind(MulDivRem(abs(p[1][1]), abs(p[2][1]), HID), LAMBDA qr :
         Fpack((p[1][1] < 0) # (p[2][1] < 0), qr[1], qr[2], HID,
               p[1][2] + p[2][2] + 23)))

(* b is not zero *)
Fdiv(a, b) ==
    Bind(<<a, b>>, LAMBDA p :
    IF p[1][1] = 0 THEN <<0, 0>>
    ELSE Bind(MulDivRem(abs(p[1][1]), HID, abs(p[2][1])), LAMBDA qr :
         Fpack((p[1][1] < 0) # (p[2][1] < 0), qr[1], qr[2], abs(p[2][1]),
               p[1][2] - p[2][2] - 23)))

(* the mantissa m of the operand of the smaller exponent, with three more  *)
(* bits, shifted right by sh places; the bits shifted out are kept in the  *)
(* last bit                                                                *)
Falign(m, sh) ==
    Bind(<<m, 8 * abs(m), sh>>, LAMBDA t :
    Bind(IF t[3] >= 27 THEN 1
         ELSE IF t[2] % 2^t[3] # 0 /\ (t[2] \div 2^t[3]) % 2 = 0
         THEN t[2] \div 2^t[3] + 1
         ELSE t[2] \div 2^t[3], LAMBDA s :
    IF t[1] < 0 THEN -s ELSE s))

Fadd(a, b) ==
    Bind(<<a, b>>, LAMBDA p :
    IF p[1][1] = 0 THEN p[2]
    ELSE IF p[2][1] = 0 THEN p[1]
    ELSE Bind(IF p[1][2] >= p[2][2] THEN p ELSE <<p[2], p[1]>>, LAMBDA o :
         Bind(8 * o[1][1] + Falign(o[2][1], o[1][2] - o[2][2]), LAMBDA s :
         IF s = 0 THEN <<0, 0>>
         ELSE Fpack(s < 0, abs(s), 0, 1, o[1][2] - 3))))

Fsub(a, b) == Fadd(a, Fneg(b))

(* a < b *)
Flt(a, b) ==
    Bind(<<a, b>>, LAMBDA p :
    IF p[1][1] <= 0 /\ p[2][1] >= 0 THEN p[1][1] < 0 \/ p[2][1] > 0
    ELSE IF p[1][1] >= 0 /\ p[2][1] <= 0 THEN FALSE
    ELSE IF p[1][1] > 0
    THEN p[1][2] < p[2][2] \/ (p[1][2] = p[2][2] /\ p[1][1] < p[2][1])
    ELSE p[1][2] > p[2][2] \/ (p[1][2] = p[2][2] /\ p[1][1] < p[2][1]))

(* (long) a: the integer part, toward zero *)
Ftrunc(a) ==
    Bind(a, LAMBDA v :
    IF v[2] >= 0 THEN v[1] * 2^v[2]
    ELSE IF -v[2] >= 31 THEN 0
    ELSE IF v[1] < 0 THEN -((-v[1]) \div 2^(-v[2]))
    ELSE v[1] \div 2^(-v[2]))

(* Arduino round(): ((x) >= 0 ? (long)((x) + 0.5) : (long)((x) - 0.5)) *)
round(x) ==
    Bind(x, LAMBDA v :
    IF ~Flt(v, F32(0, 1)) THEN Ftrunc(Fadd(v, F32(1, 2)))
                          ELSE Ftrunc(Fsub(v, F32(1, 2))))

(* map_float, lines 358-361 *)
map_float(x, in_min, in_max, out_min, out_max) ==
    Fadd(Fdiv(Fmul(Fsub(x, in_min), Fsub(out_max, out_min)),
              Fsub(in_max, in_min)), out_min)

(* deg_to_us, lines 348-355, as it computes.  value is the argument in     *)
(* 1/DEG degree; the function receives the float nearest to it.            *)
deg_to_us_compute(value) ==
    Bind(F32(value, DEG), LAMBDA v0 :
    Bind(IF Flt(v0, F32(SERVO_MIN_DEG, DEG)) THEN F32(SERVO_MIN_DEG, DEG) ELSE v0,
         LAMBDA v1 :
    Bind(IF Flt(F32(SERVO_MAX_DEG, DEG), v1) THEN F32(SERVO_MAX_DEG, DEG) ELSE v1,
         LAMBDA v2 :
    round(map_float(v2, F32(SERVO_MIN_DEG, DEG), F32(SERVO_MAX_DEG, DEG),
                    F32(SERVO_MIN_US, 1), F32(SERVO_MAX_US, 1))))))

(* its results on the whole degrees of the servo range, computed once *)
deg_to_us_table == [d \in 0..180 |-> deg_to_us_compute(d * DEG)]

(* variant of deg_to_us: the mapped value is truncated, not rounded *)
deg_to_us_truncated(value) ==
    Bind(F32(value, DEG), LAMBDA v0 :
    Bind(IF Flt(v0, F32(SERVO_MIN_DEG, DEG)) THEN F32(SERVO_MIN_DEG, DEG) ELSE v0,
         LAMBDA v1 :
    Bind(IF Flt(F32(SERVO_MAX_DEG, DEG), v1) THEN F32(SERVO_MAX_DEG, DEG) ELSE v1,
         LAMBDA v2 :
    Ftrunc(map_float(v2, F32(SERVO_MIN_DEG, DEG), F32(SERVO_MAX_DEG, DEG),
                     F32(SERVO_MIN_US, 1), F32(SERVO_MAX_US, 1))))))

(* deg_to_us, lines 348-355: the computation above, looked up where the    *)
(* table has it                                                            *)
deg_to_us(value) ==
    IF value % DEG = 0 /\ value \div DEG \in DOMAIN deg_to_us_table
    THEN deg_to_us_table[value \div DEG]
    ELSE deg_to_us_compute(value)

-----------------------------------------------------------------------------
(* Controller frames: what read_gamepad() latches (PS2X_lib).              *)
Buttons == {"R1", "R2", "L1", "L2", "BLUE", "PAD_UP", "PAD_DOWN"}

(* Bound of the input space explored: stick positions k = 1..AxisSamples   *)
(* counts beyond the deadband                                              *)
AxisSamples == 1

Centred == [ly |-> JS_MIDPOINT, lx |-> JS_MIDPOINT, ry |-> JS_MIDPOINT, rx |-> JS_MIDPOINT]
AtEdge  == [ly |-> JS_MIDPOINT - JS_DEADBAND, lx |-> JS_MIDPOINT + JS_DEADBAND,
            ry |-> JS_MIDPOINT + JS_DEADBAND, rx |-> JS_MIDPOINT - JS_DEADBAND]
Beyond(k) == [ly |-> JS_MIDPOINT + JS_DEADBAND + k, lx |-> 0,
              ry |-> JS_MIDPOINT - JS_DEADBAND - k, rx |-> 255]
Full    == [ly |-> 0, lx |-> JS_MIDPOINT, ry |-> 255, rx |-> JS_MIDPOINT]

Sticks == {Centred, AtEdge, Full} \cup {Beyond(k) : k \in 1..AxisSamples}

(* Button combinations explored with the sticks centred: none, each        *)
(* button alone, and the chords in which two branches of one handler meet; *)
(* with the sticks fully deflected: the chords in which the arm, gripper   *)
(* and speed handlers meet                                                 *)
Chords == { {"L1", "BLUE"}, {"L2", "BLUE"}, {"PAD_UP", "PAD_DOWN"} }
HeldCentred == {{b} : b \in Buttons} \cup Chords
HeldFull == { {"L1", "PAD_UP"}, {"R1", "R2"}, {"L2", "PAD_DOWN"}, {"R2", "BLUE"} }

(* what the pad reports at one poll: the sticks and the buttons held down *)
Polls == {[sticks |-> s, held |-> {}] : s \in Sticks}
           \cup {[sticks |-> Centred, held |-> h] : h \in HeldCentred}
           \cup {[sticks |-> Full, held |-> h] : h \in HeldFull}

(* read_gamepad() (PS2X_lib): latch the poll; a button counts as pressed   *)
(* when it is down in this read and was up in the previous one             *)
read_gamepad(last, p) ==
    [ly |-> p.sticks.ly, lx |-> p.sticks.lx, ry |-> p.sticks.ry, rx |-> p.sticks.rx,
     held |-> p.held, pressed |-> p.held \ last.held]

(* Ps2x.Button, Ps2x.ButtonPressed (PS2X_lib) *)
Button(f, b) == b \in f.held
ButtonPressed(f, b) == b \in f.pressed

-----------------------------------------------------------------------------
(* loop(), lines 155-251, block by block *)

(* variant of the deadband test: a deflection of exactly the deadband counts *)
Deflected_inclusive(trans) == abs(trans) >= JS_DEADBAND

(* the deadband tests of lines 176 and 201 *)
Deflected(trans) == abs(trans) > JS_DEADBAND

(* lines 176-178: Y position *)
YBlock(y_tmp, ry_trans, speed) ==
    IF Deflected(ry_trans)
    THEN max(y_tmp + (ry_trans * MM * speed) \div (JS_IK_SCALE * PCT), Y_MIN)
    ELSE y_tmp

(* lines 181-184: limit tone of the Y block *)
YTone(y_tmp, ry_trans) ==
    IF Deflected(ry_trans) /\ y_tmp = Y_MIN THEN <<TONE_IK_ERROR>> ELSE <<>>

(* lines 189-197: Z position *)
ZBlock(z_tmp, r1, r2, speed) ==
    IF r1 \/ r2
    THEN max(IF r1 THEN z_tmp + (Z_INCREMENT * speed) \div PCT
                   ELSE z_tmp - (Z_INCREMENT * speed) \div PCT, 0)
    ELSE z_tmp

(* lines 201-204: gripper angle *)
GABlock(ga_tmp, ly_trans, speed) ==
    IF Deflected(ly_trans)
    THEN ga_tmp - (ly_trans * (DEG \div JS_SCALE) * speed) \div PCT
    ELSE ga_tmp

(* variant of the gripper block: L1 opens and L2 closes *)
GBlock_swapped(g, l1, l2) ==
    IF l1 \/ l2
    THEN constrain(IF l1 THEN g - G_INCREMENT ELSE g + G_INCREMENT, GRI_MIN, GRI_MAX)
    ELSE g

(* lines 208-214: gripper jaw, L1 / L2 *)
GBlock(g, l1, l2) ==
    IF l1 \/ l2
    THEN constrain(IF l1 THEN g + G_INCREMENT ELSE g - G_INCREMENT, GRI_MIN, GRI_MAX)
    ELSE g

(* variant of the gripper limit tone: only the closed limit sounds *)
GTone_closed_only(g, l1, l2) ==
    IF (l1 \/ l2) /\ g = GRI_MAX THEN <<TONE_IK_ERROR>> ELSE <<>>

(* lines 217-220: limit tone of the gripper block *)
GTone(g, l1, l2) ==
    IF (l1 \/ l2) /\ (g = GRI_MIN \/ g = GRI_MAX) THEN <<TONE_IK_ERROR>> ELSE <<>>

(* variant of the X button block: X closes the gripper *)
XBlock_closes(g, blue) == IF blue THEN GRI_MAX ELSE g

(* lines 224-227: X button *)
XBlock(g, blue) == IF blue THEN GRI_MIN ELSE g

(* variant of the speed block: the new speed is not constrained *)
SpeedBlock_unclamped(speed, up, down) ==
    IF up \/ down
    THEN (IF up THEN speed + SPEED_INCREMENT ELSE speed - SPEED_INCREMENT)
    ELSE speed

(* lines 230-237: speed *)
SpeedBlock(speed, up, down) ==
    IF up \/ down
    THEN constrain(IF up THEN speed + SPEED_INCREMENT ELSE speed - SPEED_INCREMENT,
                   SPEED_MIN, SPEED_MAX)
    ELSE speed

(* line 240: speed tone, (TONE_READY * Speed) converted to unsigned int *)
SpeedTone(speed, up, down) ==
    IF up \/ down THEN <<(TONE_READY * speed) \div PCT>> ELSE <<>>

(* lines 244-248: the arm_move block.  It resets the flag and does nothing *)
(* else: no set_arm call, no assignment to Y, Z, GA, no tone.              *)
ArmMoveBlock(move, pose, c) ==
    [pose |-> pose, calls |-> 0, writes |-> <<>>, tones |-> <<>>]

(* Servo::writeMicroseconds: the servo keeps the last pulse written to it *)
Servos == {"bas", "shl", "elb", "wri", "gri"}
RECURSIVE Written(_, _)
Written(sv, wr) ==
    IF wr = <<>> THEN sv
    ELSE Written([sv EXCEPT ![Head(wr)[1]] = Head(wr)[2]], Tail(wr))

Pose == [Y |-> Y, Z |-> Z, GA |-> GA]
Globals == [Y |-> Y, Z |-> Z, GA |-> GA, G |-> G, Speed |-> Speed]

loop ==
    /\ pc \in {"ready", "loop"}
    /\ pc' = "loop"
    /\ \E p \in Polls :
         LET f == read_gamepad(frame, p)
             ly_trans == JS_MIDPOINT - f.ly
             ry_trans == JS_MIDPOINT - f.ry
             y_tmp  == YBlock(Y, ry_trans, Speed)
             z_tmp  == ZBlock(Z, Button(f, "R1"), Button(f, "R2"), Speed)
             ga_tmp == GABlock(GA, ly_trans, Speed)
             move   == Deflected(ry_trans) \/ Button(f, "R1") \/ Button(f, "R2")
                          \/ Deflected(ly_trans)
             l1     == Button(f, "L1")
             l2     == Button(f, "L2")
             g1     == GBlock(G, l1, l2)
             blue   == ButtonPressed(f, "BLUE")
             g2     == XBlock(g1, blue)
             up     == ButtonPressed(f, "PAD_UP")
             down   == ButtonPressed(f, "PAD_DOWN")
             s1     == SpeedBlock(Speed, up, down)
             c      == [y |-> y_tmp, z |-> z_tmp, ga |-> ga_tmp]
             blk    == ArmMoveBlock(move, Pose, c)
             wr     == (IF l1 \/ l2 THEN << <<"gri", deg_to_us(g1)>> >> ELSE <<>>)
                          \o (IF blue THEN << <<"gri", deg_to_us(g2)>> >> ELSE <<>>)
                          \o blk.writes
         IN  /\ frame' = f
             /\ prev' = Globals
             /\ cand' = c
             /\ arm_move' = move
             /\ Y' = blk.pose.Y
             /\ Z' = blk.pose.Z
             /\ GA' = blk.pose.GA
             /\ G' = g2
             /\ Speed' = s1
             /\ writes' = wr
             /\ servo' = Written(servo, wr)
             /\ tones' = YTone(y_tmp, ry_trans) \o GTone(g1, l1, l2)
                            \o SpeedTone(s1, up, down) \o blk.tones
             /\ calls' = blk.calls
             /\ UNCHANGED <<args, ret>>

-----------------------------------------------------------------------------
(***************************************************************************)
(* Fixed-point mathematics standing for the float library calls of         *)
(* set_arm: sin, cos, atan2, acos, sqrt.                                   *)
(*   FIX     the scale of sines, cosines and acos arguments                *)
(*   SUB     the solver keeps lengths in 1/(80*SUB) mm, 1/16 of the unit   *)
(*           of the arguments, in which the arguments and the arm          *)
(*           dimensions are whole numbers                                  *)
(*   squared lengths are kept in units of 4/80^2 mm^2 so that they fit;    *)
(*   the radial distance of line 264, whose operands may be far smaller    *)
(*   than that unit, is taken from the exact sum of the squares            *)
(* Angles are computed by CORDIC rotations.                                *)
(***************************************************************************)
FIX == 2^28
SUB == 80
SQ  == 4 * SUB * SUB

(* atan(2^-i) for i = 0, 1, ... in 1/DEG degree *)
ATAN == <<45000000, 26565051, 14036243, 7125016, 3576334, 1789911, 895174,
          447614, 223811, 111906, 55953, 27976, 13988, 6994, 3497, 1749,
          874, 437, 219, 109, 55, 27, 14, 7, 3, 2, 1>>

(* rotate the vector (x, y) by the angle z *)
RECURSIVE Rotate(_, _, _, _)
Rotate(x, y, z, i) ==
    IF i > Len(ATAN) THEN <<x, y>>
    ELSE Bind(IF z >= 0
              THEN <<x - y \div 2^(i-1), y + x \div 2^(i-1), z - ATAN[i]>>
              ELSE <<x + y \div 2^(i-1), y - x \div 2^(i-1), z + ATAN[i]>>,
              LAMBDA w : Rotate(w[1], w[2], w[3], i + 1))

(* the angle of the vector (x, y), x > 0 *)
RECURSIVE Vector(_, _, _, _)
Vector(x, y, z, i) ==
    IF i > Len(ATAN) \/ y = 0 THEN z
    ELSE Bind(IF y > 0
              THEN <<x + y \div 2^(i-1), y - x \div 2^(i-1), z + ATAN[i]>>
              ELSE <<x - y \div 2^(i-1), y + x \div 2^(i-1), z - ATAN[i]>>,
              LAMBDA w : Vector(w[1], w[2], w[3], i + 1))

(* FIX = 2^28 divided by the CORDIC gain *)
GAIN == 163008219

(* <<sin, cos>> of an angle in 1/DEG degree, results scaled by FIX *)
sin_cos(t) ==
    Bind(((t + 180 * DEG) % (360 * DEG)) - 180 * DEG, LAMBDA n :
    Bind(IF n > 90 * DEG THEN Rotate(GAIN, 0, 180 * DEG - n, 1)
         ELSE IF n < -90 * DEG THEN Rotate(GAIN, 0, -180 * DEG - n, 1)
         ELSE Rotate(GAIN, 0, n, 1), LAMBDA r :
    IF n > 90 * DEG \/ n < -90 * DEG THEN <<r[2], -r[1]>> ELSE <<r[2], r[1]>>))

(* atan2(y, x) in 1/DEG degree; atan2(0, 0) = 0 *)
atan2(y, x) ==
    Bind(<<y, x>>, LAMBDA v :
    Bind(max(abs(v[1]), abs(v[2])), LAMBDA m :
    IF m = 0 THEN 0
    ELSE Bind(<<MulDiv(v[1], FIX, m), MulDiv(v[2], FIX, m)>>, LAMBDA s :
         IF s[2] > 0 THEN Vector(s[2], s[1], 0, 1)
         ELSE IF s[2] = 0 THEN (IF s[1] > 0 THEN 90 * DEG ELSE -90 * DEG)
         ELSE IF s[1] >= 0 THEN 180 * DEG - Vector(-s[2], s[1], 0, 1)
         ELSE -180 * DEG - Vector(-s[2], s[1], 0, 1))))

(* integer square root of n * scale, from an estimate x above it *)
RECURSIVE Newton(_, _, _)
Newton(n, scale, x) ==
    Bind((x + MulDivRem(n, scale, x)[1]) \div 2, LAMBDA y :
    IF y >= x THEN x ELSE Newton(n, scale, y))

isqrt(n) == Bind(n, LAMBDA v : IF v <= 0 THEN 0 ELSE Newton(v, 1, 46341))

(* sqrt(u * v) *)
sqrt_prod(u, v) ==
    Bind(<<u, v>>, LAMBDA t :
    IF t[1] <= 0 \/ t[2] <= 0 THEN 0
    ELSE Bind((isqrt(t[1]) + 1) * (isqrt(t[2]) + 1), LAMBDA x :
         Newton(t[1], t[2], x)))

(* acos of c / FIX, |c| <= FIX, in 1/DEG degree *)
acos(c) == Bind(c, LAMBDA v : atan2(sqrt_prod(FIX - v, FIX + v), v))

(* a * a as a squared length, and the length whose square is n *)
sq(a) == Bind(a, LAMBDA v : MulDiv(v, v, SQ))
sqrt_len(n) ==
    Bind(n, LAMBDA v :
    IF v <= 0 THEN 0
    ELSE Bind((isqrt(v) + 1) * 2 * SUB, LAMBDA x : Newton(v, SQ, x)))

(* floor of sqrt(x*x + y*y) for x, y >= 0, from an estimate r above it:    *)
(* Newton steps on the exact sum of the two squares                        *)
RECURSIVE NewtonSum(_, _, _)
NewtonSum(x, y, r) ==
    Bind(<<MulDivRem(x, x, r), MulDivRem(y, y, r)>>, LAMBDA t :
    Bind((r + t[1][1] + t[2][1] + (t[1][2] + t[2][2]) \div r) \div 2,
         LAMBDA n :
    IF n >= r THEN r ELSE NewtonSum(x, y, n)))

(* sqrt((x * x) + (y * y)) of line 264, to the nearest solver length; the  *)
(* root is taken at four times the resolution and rounded                  *)
rdist(x, y) ==
    Bind(<<4 * abs(x), 4 * abs(y)>>, LAMBDA t :
    IF t[1] + t[2] = 0 THEN 0
    ELSE (NewtonSum(t[1], t[2], t[1] + t[2]) + 2) \div 4)

-----------------------------------------------------------------------------
(* set_arm, lines 257-323 *)

(* arm dimensions in solver lengths, and the pre-calculations of lines 116-117 *)
Len80(v) == MulDiv(v, 80 * SUB, MM)
(* variant of the pre-calculation: hum_sq computed from the wrong bone *)
hum_sq_copied == sq(Len80(ULNA))

hum_sq == sq(Len80(HUMERUS))
uln_sq == sq(Len80(ULNA))

(* beyond this distance the squares no longer fit; the point is then       *)
(* further than HUMERUS + ULNA from the shoulder, where the acos argument  *)
(* of line 285 exceeds 1 and acos yields NaN                               *)
FAR == Len80(750 * MM)

(* lines 260-282: the wrist relative to the shoulder, in the order of the  *)
(* code.  s_w is the squared shoulder-to-wrist distance of line 278; far   *)
(* marks a wrist beyond FAR, for which s_w is left at 0.                   *)
wrist(x0, y0, z0, grip_angle_d) ==
    Bind([x |-> Len80(x0), y0 |-> Len80(y0), z |-> Len80(z0),
          sc |-> sin_cos(grip_angle_d)], LAMBDA a :
    Bind([bas_angle |-> atan2(a.x, a.y0),
          far1 |-> max(abs(a.x), abs(a.y0)) > FAR,
          rdist |-> IF max(abs(a.x), abs(a.y0)) > FAR THEN 0
                    ELSE rdist(a.x, a.y0),
          grip_off_z |-> MulDiv(a.sc[1], Len80(GRIPPER), FIX),
          grip_off_y |-> MulDiv(a.sc[2], Len80(GRIPPER), FIX)], LAMBDA b :
    Bind([wrist_z |-> (a.z - b.grip_off_z) - Len80(BASE_HGT),
          wrist_y |-> b.rdist - b.grip_off_y], LAMBDA w :
    Bind(b.far1 \/ max(abs(w.wrist_z), abs(w.wrist_y)) > FAR, LAMBDA far :
    Bind(IF far THEN 0 ELSE sq(w.wrist_z) + sq(w.wrist_y), LAMBDA s_w :
        [ bas_angle |-> b.bas_angle,
          wrist_z |-> w.wrist_z, wrist_y |-> w.wrist_y,
          far |-> far, s_w |-> s_w, s_w_sqrt |-> sqrt_len(s_w),
          a1 |-> atan2(w.wrist_z, w.wrist_y) ])))))

(* The squared shoulder-to-wrist distance at d solver lengths beyond the   *)
(* longest reach HUMERUS + ULNA, and at d inside the shortest reach        *)
(* ULNA - HUMERUS.                                                         *)
s_w_longest(d) == sq((Len80(HUMERUS) + Len80(ULNA)) + d)
s_w_shortest(d) == sq((Len80(ULNA) - Len80(HUMERUS)) - d)

(* What a build computes for the wrist differs from the fixed-point wrist  *)
(* by the rounding of its floats and of the solver lengths: the distance   *)
(* from the shoulder by less than REACH_EPS solver lengths (1/800 mm).     *)
REACH_EPS == 8

(* The tests isnan || isinf of lines 290 and 297: the values either may    *)
(* have.  acos yields NaN when its argument is outside [-1, 1], and by the *)
(* law of cosines                                                          *)
(*   line 285:  (hum_sq - uln_sq + s_w) / (2 * HUMERUS * s_w_sqrt)         *)
(*                 > 1 iff s_w_sqrt > HUMERUS + ULNA,                      *)
(*                 < -1 iff s_w_sqrt < ULNA - HUMERUS                      *)
(*   line 295:  (hum_sq + uln_sq - s_w) / (2 * HUMERUS * ULNA)             *)
(*                 < -1 iff s_w_sqrt > HUMERUS + ULNA,                     *)
(*                 > 1 iff s_w_sqrt < ULNA - HUMERUS                       *)
(* and s_w_sqrt = 0 makes the argument of line 285 -Infinity.  Beyond      *)
(* REACH_EPS outside the reach every build finds NaN, beyond REACH_EPS     *)
(* inside none does; in between a build's rounding decides, for each test  *)
(* on its own.                                                             *)
nan_tests(far, s_w) ==
    IF far \/ s_w > s_w_longest(REACH_EPS) \/ s_w < s_w_shortest(REACH_EPS)
    THEN {TRUE}
    ELSE IF s_w <= s_w_longest(-REACH_EPS) /\ s_w >= s_w_shortest(-REACH_EPS)
    THEN {FALSE}
    ELSE {TRUE, FALSE}

(* an acos argument that passed its test is within [-1, 1] *)
passed(c) == constrain(c, -FIX, FIX)

(* lines 260-310: the results a build may get, each a record of the tests  *)
(* of lines 290 (nan_shl) and 297 (nan_elb) and of the positions of lines  *)
(* 307-310; the positions are meaningful when both tests are FALSE.        *)
ik(x0, y0, z0, grip_angle_d) ==
    Bind(wrist(x0, y0, z0, grip_angle_d), LAMBDA w :
    Bind([nan |-> nan_tests(w.far, w.s_w),
          num2 |-> (hum_sq - uln_sq) + w.s_w,
          nume |-> (hum_sq + uln_sq) - w.s_w,
          dene |-> MulDiv(Len80(HUMERUS), Len80(ULNA), SUB * SUB)], LAMBDA c :
    Bind(IF c.nan = {TRUE} THEN [a2 |-> 0, elb_angle_d |-> 0]
         ELSE [a2 |-> acos(passed(
                        MulDiv(MulDiv(c.num2, 2^22, w.s_w_sqrt),
                               2 * SUB * SUB * (FIX \div 2^22),
                               Len80(HUMERUS)))),
               elb_angle_d |-> acos(passed(
                        MulDiv(c.nume, FIX, c.dene \div 2)))], LAMBDA e :
    Bind([shl_angle_d |-> w.a1 + e.a2,
          elb_angle_dn |-> -(180 * DEG - e.elb_angle_d)], LAMBDA d :
    Bind((grip_angle_d - d.elb_angle_dn) - d.shl_angle_d, LAMBDA wri_angle_d :
        { [ nan_shl |-> n2,
            nan_elb |-> ne,
            bas_pos |-> BAS_MID + w.bas_angle,
            shl_pos |-> SHL_MID + (d.shl_angle_d - 90 * DEG),
            elb_pos |-> ELB_MID - (e.elb_angle_d - 90 * DEG),
            wri_pos |-> WRI_MID + wri_angle_d ] :
          n2 \in c.nan, ne \in c.nan })))))

(* The joint positions of lines 307-310 as a build computes them are       *)
(* within EPS (in 1/DEG degree) of the fixed-point positions of ik, for    *)
(* every target whose positions are within a degree of the servo ranges.   *)
EPS == 1000

(* line 313: some position a build may compute exceeds its servo range *)
out_of_range(k) ==
    \/ k.bas_pos - EPS < BAS_MIN \/ k.bas_pos + EPS > BAS_MAX
    \/ k.shl_pos - EPS < SHL_MIN \/ k.shl_pos + EPS > SHL_MAX
    \/ k.elb_pos - EPS < ELB_MIN \/ k.elb_pos + EPS > ELB_MAX
    \/ k.wri_pos - EPS < WRI_MIN \/ k.wri_pos + EPS > WRI_MAX

(* line 313: some positions a build may compute are all within range *)
in_range(k) ==
    /\ k.bas_pos + EPS >= BAS_MIN /\ k.bas_pos - EPS <= BAS_MAX
    /\ k.shl_pos + EPS >= SHL_MIN /\ k.shl_pos - EPS <= SHL_MAX
    /\ k.elb_pos + EPS >= ELB_MIN /\ k.elb_pos - EPS <= ELB_MAX
    /\ k.wri_pos + EPS >= WRI_MIN /\ k.wri_pos - EPS <= WRI_MAX

(* the pulses deg_to_us may give for a position that passed line 313:      *)
(* deg_to_us does not decrease with its argument, so they are those        *)
(* between the pulses of the least and of the greatest such position       *)
pulses(pos, low, high) ==
    Bind(<<deg_to_us(constrain(pos - EPS, low, high)),
           deg_to_us(constrain(pos + EPS, low, high))>>, LAMBDA t : t[1]..t[2])

(* variant of the pulse writes: the wrist write is missing *)
position_servos_no_wrist(k) ==
    { << <<"shl", s>>, <<"elb", e>> >> :
        s \in pulses(k.shl_pos, SHL_MIN, SHL_MAX),
        e \in pulses(k.elb_pos, ELB_MIN, ELB_MAX) }

(* lines 317-319: the pulse writes of a successful call, each sequence of  *)
(* writes a build may make; the base servo is not among them               *)
position_servos(k) ==
    { << <<"shl", s>>, <<"elb", e>>, <<"wri", w>> >> :
        s \in pulses(k.shl_pos, SHL_MIN, SHL_MAX),
        e \in pulses(k.elb_pos, ELB_MIN, ELB_MAX),
        w \in pulses(k.wri_pos, WRI_MIN, WRI_MAX) }

(* variant of set_arm: the servos are positioned before the range check *)
set_arm_late_check(x, y, z, grip_angle_d) ==
    Bind(ik(x, y, z, grip_angle_d), LAMBDA ks : UNION {
        IF k.nan_shl
        THEN {[ret |-> IK_ERROR, writes |-> <<>>, line |-> "line 291"]}
        ELSE IF k.nan_elb
        THEN {[ret |-> IK_ERROR, writes |-> <<>>, line |-> "line 298"]}
        ELSE {[ret |-> IK_ERROR, writes |-> w, line |-> "line 314"] :
                 w \in IF out_of_range(k) THEN position_servos(k) ELSE {}}
             \cup {[ret |-> IK_SUCCESS, writes |-> w, line |-> "line 322"] :
                 w \in IF in_range(k) THEN position_servos(k) ELSE {}}
        : k \in ks })

(* variant of set_arm: without the isnan || isinf tests of lines 290 and   *)
(* 297; a NaN position passes every comparison of line 313                 *)
set_arm_no_nan_test(x, y, z, grip_angle_d) ==
    Bind(ik(x, y, z, grip_angle_d), LAMBDA ks : UNION {
        IF k.nan_shl \/ k.nan_elb
        THEN {[ret |-> IK_SUCCESS, writes |-> w, line |-> "line 322"] :
                 w \in position_servos(k)}
        ELSE (IF out_of_range(k)
              THEN {[ret |-> IK_ERROR, writes |-> <<>>, line |-> "line 314"]}
              ELSE {})
             \cup {[ret |-> IK_SUCCESS, writes |-> w, line |-> "line 322"] :
                 w \in IF in_range(k) THEN position_servos(k) ELSE {}}
        : k \in ks })

(* variant of set_arm: no device call - a successful call only returns *)
set_arm_returns_only(x, y, z, grip_angle_d) ==
    Bind(ik(x, y, z, grip_angle_d), LAMBDA ks : UNION {
        IF k.nan_shl
        THEN {[ret |-> IK_ERROR, writes |-> <<>>, line |-> "line 291"]}
        ELSE IF k.nan_elb
        THEN {[ret |-> IK_ERROR, writes |-> <<>>, line |-> "line 298"]}
        ELSE (IF out_of_range(k)
              THEN {[ret |-> IK_ERROR, writes |-> <<>>, line |-> "line 314"]}
              ELSE {})
             \cup (IF in_range(k)
                   THEN {[ret |-> IK_SUCCESS, writes |-> <<>>, line |-> "line 322"]}
                   ELSE {})
        : k \in ks })

(* The whole call: the outcomes it may have, each the return value, the    *)
(* pulse writes made and the return statement reached (lines 291, 298, 314 *)
(* and 322).  Where the tests of lines 290 and 297 may go either way, the  *)
(* elbow position is about -2 or 178 degrees and line 313 rejects what     *)
(* they let through.                                                       *)
set_arm(x, y, z, grip_angle_d) ==
    Bind(ik(x, y, z, grip_angle_d), LAMBDA ks : UNION {
        IF k.nan_shl
        THEN {[ret |-> IK_ERROR, writes |-> <<>>, line |-> "line 291"]}
        ELSE IF k.nan_elb
        THEN {[ret |-> IK_ERROR, writes |-> <<>>, line |-> "line 298"]}
        ELSE (IF out_of_range(k)
              THEN {[ret |-> IK_ERROR, writes |-> <<>>, line |-> "line 314"]}
              ELSE {})
             \cup {[ret |-> IK_SUCCESS, writes |-> w, line |-> "line 322"] :
                 w \in IF in_range(k) THEN position_servos(k) ELSE {}}
        : k \in ks })

-----------------------------------------------------------------------------
(* variant of servo_park: the ready case writes nothing *)
servo_park_midpoint_only(park_type) ==
    IF park_type = PARK_MIDPOINT
    THEN << <<"bas", deg_to_us(BAS_MID)>>, <<"shl", deg_to_us(SHL_MID)>>,
            <<"elb", deg_to_us(ELB_MID)>>, <<"wri", deg_to_us(WRI_MID)>>,
            <<"gri", deg_to_us(GRI_MID)>> >>
    ELSE <<>>

(* servo_park, lines 326-345: the pulse writes it makes *)
servo_park(park_type) ==
    IF park_type = PARK_MIDPOINT
    THEN << <<"bas", deg_to_us(BAS_MID)>>, <<"shl", deg_to_us(SHL_MID)>>,
            <<"elb", deg_to_us(ELB_MID)>>, <<"wri", deg_to_us(WRI_MID)>>,
            <<"gri", deg_to_us(GRI_MID)>> >>
    ELSE IF park_type = PARK_READY
    THEN << <<"gri", deg_to_us(READY_G)>> >>
    ELSE <<>>

(* setup(), lines 129-153, step by step *)
Quiet == /\ writes' = <<>> /\ tones' = <<>> /\ calls' = 0
         /\ prev' = Globals
         /\ UNCHANGED <<Y, Z, GA, G, Speed, cand, arm_move, args, ret>>

(* lines 132-136: attach the five servos; no pulse is commanded *)
SetupAttach ==
    /\ pc = "attach" /\ pc' = "config"
    /\ Quiet /\ UNCHANGED <<servo, frame>>

(* lines 140-142: config_gamepad answers 1 (no controller found): try again *)
SetupConfigRetry ==
    /\ pc = "config" /\ pc' = "config"
    /\ Quiet /\ UNCHANGED <<servo, frame>>

(* lines 140-142: config_gamepad answers other than 1; it has read the pad *)
SetupConfigDone ==
    /\ pc = "config" /\ pc' = "park"
    /\ \E p \in Polls : frame' = read_gamepad(frame, p)
    /\ Quiet /\ UNCHANGED servo

(* lines 146-147: servo_park(PARK_READY) *)
SetupPark ==
    /\ pc = "park" /\ pc' = "tone1"
    /\ writes' = servo_park(PARK_READY)
    /\ servo' = Written(servo, servo_park(PARK_READY))
    /\ tones' = <<>> /\ calls' = 0 /\ prev' = Globals
    /\ UNCHANGED <<Y, Z, GA, G, Speed, frame, cand, arm_move, args, ret>>

(* lines 149-150: first ready tone *)
SetupTone1 ==
    /\ pc = "tone1" /\ pc' = "tone2"
    /\ tones' = <<TONE_READY>>
    /\ writes' = <<>> /\ calls' = 0 /\ prev' = Globals
    /\ UNCHANGED <<Y, Z, GA, G, Speed, servo, frame, cand, arm_move, args, ret>>

(* line 151: second ready tone; setup returns and loop() runs from now on *)
SetupTone2 ==
    /\ pc = "tone2" /\ pc' = "ready"
    /\ tones' = <<TONE_READY>>
    /\ writes' = <<>> /\ calls' = 0 /\ prev' = Globals
    /\ UNCHANGED <<Y, Z, GA, G, Speed, servo, frame, cand, arm_move, args, ret>>

-----------------------------------------------------------------------------
(* The program: globals as initialised at lines 109-113, then setup, then  *)
(* loop() for ever.                                                        *)
NoFrame == read_gamepad([held |-> {}], [sticks |-> Centred, held |-> {}])

(* variant of the initial Y: initialised from the height constant *)
InitY_low == READY_Z

InitY == READY_Y
InitZ == READY_Z
InitGA == READY_GA
InitG == READY_G
InitSpeed == SPEED_DEFAULT

Init ==
    /\ pc = "attach"
    /\ Y = InitY /\ Z = InitZ /\ GA = InitGA /\ G = InitG /\ Speed = InitSpeed
    /\ servo = [j \in Servos |-> 0]
    /\ frame = NoFrame
    /\ prev = [Y |-> InitY, Z |-> InitZ, GA |-> InitGA, G |-> InitG, Speed |-> InitSpeed]
    /\ cand = [y |-> InitY, z |-> InitZ, ga |-> InitGA]
    /\ arm_move = FALSE
    /\ writes = <<>> /\ tones = <<>> /\ calls = 0
    /\ args = <<>> /\ ret = "none"

Next ==
    \/ SetupAttach
    \/ SetupConfigRetry
    \/ SetupConfigDone
    \/ SetupPark
    \/ SetupTone1
    \/ SetupTone2
    \/ loop

Spec == Init /\ [][Next]_vars

-----------------------------------------------------------------------------
(* Harness for set_arm as a function: one call on arguments drawn from a   *)
(* grid of targets, from the state in which setup() leaves the program.    *)
GridY == 6      \* y = 100, 160, ... mm
GridZ == 5      \* z = 0, 50, ... mm
GridA == 1      \* grip angle = -45, 0, 45 ... degrees

Grid ==
    { <<x * MM, (100 + 60 * i) * MM, 50 * j * MM, 45 * k * DEG>> :
        x \in {0, 40}, i \in 0..GridY, j \in 0..GridZ, k \in (-GridA)..GridA }
      \cup { <<0, READY_Y, READY_Z, READY_GA>> }
      \* the wrist on the shoulder axis, and a target out of the arm's reach
      \cup { <<0, GRIPPER, BASE_HGT, 0>>, <<0, 700 * MM, 0, 0>> }
      \* wrist positions at a half-microsecond tie, and a base position at
      \* BAS_MIN: targets on which builds of the sketch differ
      \cup { <<0, (1045 * MM) \div 4, (481 * MM) \div 2, -67 * DEG>>,
             <<219 * MM, (2031 * MM) \div 4, 355 * MM, (41 * DEG) \div 4>>,
             <<-300 * MM, 0, 200 * MM, 0>> }
      \* targets a few hundredths of a mm off the base axis, whose radial
      \* distance is far below the unit of the squared lengths
      \cup { <<-7, 7, (8451 * MM) \div 16, 98609375>>,
             <<2, 3, 554 * MM, 90 * DEG>> }
      \* targets at the limits of the reach, to within the rounding of a
      \* float: beyond the longest reach by 0.00002 mm, inside the shortest
      \* by 0.000003 mm, and the arm fully stretched along the y axis
      \cup { <<0, (3293 * MM) \div 16, (9481 * MM) \div 16, (-397 * DEG) \div 8>>,
             <<0, 35 * MM, (1031 * MM) \div 16, (-333 * DEG) \div 4>>,
             <<0, (HUMERUS + ULNA) + GRIPPER, BASE_HGT, 0>> }

AfterSetup ==
    /\ Y = InitY /\ Z = InitZ /\ GA = InitGA /\ G = InitG /\ Speed = InitSpeed
    /\ servo = Written([j \in Servos |-> 0], servo_park(PARK_READY))
    /\ frame = NoFrame
    /\ prev = [Y |-> InitY, Z |-> InitZ, GA |-> InitGA, G |-> InitG, Speed |-> InitSpeed]
    /\ cand = [y |-> InitY, z |-> InitZ, ga |-> InitGA]
    /\ arm_move = FALSE
    /\ writes = <<>> /\ tones = <<>> /\ calls = 0
    /\ ret = "none"

SolverInit ==
    /\ pc = "call"
    /\ args \in Grid
    /\ AfterSetup

CallSetArm ==
    /\ pc = "call"
    /\ \E r \in set_arm(args[1], args[2], args[3], args[4]) :
           /\ pc' = r.line
           /\ ret' = r.ret
           /\ writes' = r.writes
           /\ servo' = Written(servo, r.writes)
    /\ calls' = 1 /\ tones' = <<>> /\ prev' = Globals
    /\ UNCHANGED <<Y, Z, GA, G, Speed, frame, cand, arm_move, args>>

SolverNext == CallSetArm

SolverSpec == SolverInit /\ [][SolverNext]_vars

(* Harness for deg_to_us as a function: one call on an angle drawn from    *)
(* -15 .. 195 degrees in steps of 1/80 degree, or from the angles 1/DEG    *)
(* degree on either side of a half-microsecond tie.                        *)
Ties == { DEG \div 20 + n * (DEG \div 10) : n \in 0..(SERVO_MAX_US - SERVO_MIN_US - 1) }
Angles ==
    { k * (DEG \div 80) : k \in (-15 * 80)..(195 * 80) }
      \cup { t + d : t \in Ties, d \in {-1, 1} }

ConvInit ==
    /\ pc = "convert"
    /\ args \in { <<a>> : a \in Angles }
    /\ AfterSetup

CallDegToUs ==
    /\ pc = "convert" /\ pc' = "converted"
    /\ ret' = deg_to_us(args[1])
    /\ writes' = <<>> /\ calls' = 0 /\ tones' = <<>> /\ prev' = Globals
    /\ UNCHANGED <<Y, Z, GA, G, Speed, servo, frame, cand, arm_move, args>>

ConvNext == CallDegToUs

ConvSpec == ConvInit /\ [][ConvNext]_vars

(* Harness for the solver and the converter together: one call of either *)
CallInit == SolverInit \/ ConvInit

CallNext == CallSetArm \/ CallDegToUs

CallSpec == CallInit /\ [][CallNext]_vars

-----------------------------------------------------------------------------
(* Properties *)

ArmJoints == {"bas", "shl", "elb", "wri"}
JointsWritten == {writes[i][1] : i \in 1..Len(writes)} \cap ArmJoints
(* set_arm has returned, at one of its return statements *)
Returned == pc \in {"line 291", "line 298", "line 314", "line 322"}
Rejected == Returned /\ ret = IK_ERROR

(* C1: when set_arm rejects a pose (IK_ERROR), Y, Z and GA are what they   *)
(* were before, and no pulse - hence no converted angle - has gone to the  *)
(* base, shoulder, elbow or wrist servo.                                   *)
C1_RejectionTouchesNothing ==
    Rejected =>
        /\ Y = prev.Y /\ Z = prev.Z /\ GA = prev.GA
        /\ writes = <<>>
        /\ \A j \in ArmJoints : servo[j] = 0

(* a rejection by the range check of line 313 *)
C1_Witness ==
    /\ Rejected
    /\ args = <<0, 100 * MM, 0, 0>>
    /\ writes = <<>>

(* C2: a cycle with an arm-moving input (a stick's Y axis beyond the       *)
(* deadband, or R1 / R2 held) calls set_arm on the candidate, and when the *)
(* call succeeds the candidate is the committed pose at the end of the     *)
(* cycle and the joint pulses have been written.                           *)
ArmInput ==
    \/ abs(JS_MIDPOINT - frame.ry) > JS_DEADBAND
    \/ abs(JS_MIDPOINT - frame.ly) > JS_DEADBAND
    \/ "R1" \in frame.held \/ "R2" \in frame.held

C2_ArmInputSolvesAndCommits ==
    (pc = "loop" /\ ArmInput) =>
        /\ calls >= 1
        /\ args = <<0, cand.y, cand.z, cand.ga>>
        /\ ret = IK_SUCCESS =>
              /\ Y = cand.y /\ Z = cand.z /\ GA = cand.ga
              /\ JointsWritten = ArmJoints

(* C3: the joints a call of set_arm commands are all four or none: all     *)
(* four when it accepts, none when it rejects.                             *)
C3_AllFourOrNone ==
    Returned =>
        /\ JointsWritten = {} \/ JointsWritten = ArmJoints
        /\ ret = IK_SUCCESS => JointsWritten = ArmJoints
        /\ ret = IK_ERROR => JointsWritten = {}

(* C4: when the candidate is rejected the IK-error tone sounds *)
C4_RejectionSounds ==
    Rejected => \E i \in 1..Len(tones) : tones[i] = TONE_IK_ERROR

(* C5: G stays within [GRI_MIN, GRI_MAX] and Speed within                  *)
(* [SPEED_MIN, SPEED_MAX] in every state.                                  *)
C5_GripperAndSpeedInRange ==
    /\ GRI_MIN <= G /\ G <= GRI_MAX
    /\ SPEED_MIN <= Speed /\ Speed <= SPEED_MAX

(* a cycle in which both clamps have acted: L1 held with the gripper at    *)
(* its maximum, pad-up pressed at full speed                               *)
C5_Witness ==
    /\ pc = "loop"
    /\ "L1" \in frame.held /\ prev.G = GRI_MAX /\ G = GRI_MAX
    /\ "PAD_UP" \in frame.pressed /\ prev.Speed = SPEED_MAX /\ Speed = SPEED_MAX

(* C6: Y >= Y_MIN and Z >= 0 in every state, and the candidate a cycle has *)
(* formed when it reaches the arm_move test has y >= Y_MIN and z >= 0.     *)
C6_PoseAndCandidateFloor ==
    /\ Y >= Y_MIN /\ Z >= 0
    /\ cand.y >= Y_MIN /\ cand.z >= 0

(* a cycle at top speed whose candidate is nearer and lower than the pose *)
C6_Witness ==
    /\ pc = "loop" /\ arm_move
    /\ prev.Speed = SPEED_MAX
    /\ cand.y < prev.Y /\ cand.z < prev.Z

(* C7, as claimed: deg_to_us of any angle is the linear map of the angle   *)
(* clamped to [SERVO_MIN_DEG, SERVO_MAX_DEG] onto [SERVO_MIN_US,           *)
(* SERVO_MAX_US], rounded to the nearest integer, hence within 600..2400;  *)
(* 10 degrees below the minimum and the minimum both give SERVO_MIN_US,    *)
(* the midpoint gives SERVO_MID_US.                                        *)
DegPerUs == (SERVO_MAX_DEG - SERVO_MIN_DEG) \div (SERVO_MAX_US - SERVO_MIN_US)
Clamped(a) ==
    IF a < SERVO_MIN_DEG THEN SERVO_MIN_DEG
    ELSE IF a > SERVO_MAX_DEG THEN SERVO_MAX_DEG ELSE a

(* twice the distance, in 1/DEG degree, between the angle of the pulse us  *)
(* and the clamped angle a                                                 *)
Off2(us, a) == 2 * abs((us - SERVO_MIN_US) * DegPerUs - (Clamped(a) - SERVO_MIN_DEG))

C7_ConverterClampsAndRounds ==
    pc = "converted" =>
        /\ ret \in SERVO_MIN_US..SERVO_MAX_US
        /\ Off2(ret, args[1]) <= DegPerUs
        /\ args[1] \in {SERVO_MIN_DEG - 10 * DEG, SERVO_MIN_DEG} => ret = SERVO_MIN_US
        /\ args[1] = SERVO_MID_DEG => ret = SERVO_MID_US

(* C7, amended: the result is within half a microsecond, plus the rounding *)
(* of the single-precision map (less than 1/1000 microsecond), of the      *)
(* linear map of the clamped angle - the nearest integer unless the map is *)
(* that close to a tie, where it may be either neighbour; it lies within   *)
(* 600..2400; 10 degrees below the minimum and the minimum both give       *)
(* SERVO_MIN_US, the midpoint gives SERVO_MID_US.                          *)
FloatSlack == DegPerUs \div 1000

C7_ConverterRoundsInFloat ==
    pc = "converted" =>
        /\ ret \in SERVO_MIN_US..SERVO_MAX_US
        /\ Off2(ret, args[1]) <= DegPerUs + 2 * FloatSlack
        /\ args[1] \in {SERVO_MIN_DEG - 10 * DEG, SERVO_MIN_DEG} => ret = SERVO_MIN_US
        /\ args[1] = SERVO_MID_DEG => ret = SERVO_MID_US

(* 0.049999 degree, whose map 600.49999 has no float nearer than 600.5:    *)
(* converted to 601                                                        *)
C7_Witness ==
    /\ pc = "converted"
    /\ args[1] = DEG \div 20 - 1
    /\ ret = SERVO_MIN_US + 1
    /\ Off2(ret, args[1]) > DegPerUs

(* C8: in every cycle G and Speed are their values before the cycle moved  *)
(* by that cycle's gripper and speed inputs alone, each held to its        *)
(* limits, and the new opening has gone to the gripper servo; Y, Z and GA  *)
(* are what they were, whatever the sticks and R1 / R2 did.                *)
Within(v, low, high) == IF v < low THEN low ELSE IF v > high THEN high ELSE v

C8_GripperAndSpeedDirect ==
    pc = "loop" =>
        /\ G = IF "BLUE" \in frame.pressed THEN GRI_MIN
               ELSE IF "L1" \in frame.held
               THEN Within(prev.G + G_INCREMENT, GRI_MIN, GRI_MAX)
               ELSE IF "L2" \in frame.held
               THEN Within(prev.G - G_INCREMENT, GRI_MIN, GRI_MAX)
               ELSE prev.G
        /\ Speed = IF "PAD_UP" \in frame.pressed
                   THEN Within(prev.Speed + SPEED_INCREMENT, SPEED_MIN, SPEED_MAX)
                   ELSE IF "PAD_DOWN" \in frame.pressed
                   THEN Within(prev.Speed - SPEED_INCREMENT, SPEED_MIN, SPEED_MAX)
                   ELSE prev.Speed
        /\ ("BLUE" \in frame.pressed \/ "L1" \in frame.held \/ "L2" \in frame.held)
              => /\ writes # <<>>
                 /\ writes[Len(writes)] = <<"gri", deg_to_us(G)>>
        /\ Y = prev.Y /\ Z = prev.Z /\ GA = prev.GA

(* a cycle with both sticks pushed in which L1 and pad-up took effect *)
C8_Witness ==
    /\ pc = "loop" /\ ArmInput
    /\ "L1" \in frame.held /\ G = prev.G + G_INCREMENT
    /\ "PAD_UP" \in frame.pressed /\ Speed = prev.Speed + SPEED_INCREMENT

(* C9: a cycle in which every axis is within the deadband of the midpoint  *)
(* and no button is held or newly pressed forms no candidate and calls no  *)
(* solver, leaves Y, Z, GA, G and Speed alone, writes no pulse and sounds  *)
(* no tone.                                                                *)
Idle ==
    /\ \A v \in {frame.ly, frame.lx, frame.ry, frame.rx} :
          abs(v - JS_MIDPOINT) <= JS_DEADBAND
    /\ frame.held = {} /\ frame.pressed = {}

C9_IdleCycle ==
    (pc = "loop" /\ Idle) =>
        /\ ~arm_move /\ calls = 0
        /\ cand = [y |-> prev.Y, z |-> prev.Z, ga |-> prev.GA]
        /\ Globals = prev
        /\ writes = <<>> /\ tones = <<>>

(* an idle cycle with the sticks at the edge of the deadband *)
C9_Witness ==
    /\ pc = "loop" /\ Idle
    /\ abs(frame.ry - JS_MIDPOINT) = JS_DEADBAND
    /\ abs(frame.ly - JS_MIDPOINT) = JS_DEADBAND

(* C10: from the ready tone on, a parking pose has been commanded: all     *)
(* five servos at their midpoints, or the arm joints at the angles of the  *)
(* ready pose and the gripper at READY_G; and the committed pose is the    *)
(* ready pose when the first cycle starts.                                 *)
AtMidpoints ==
    /\ servo["bas"] = deg_to_us(BAS_MID) /\ servo["shl"] = deg_to_us(SHL_MID)
    /\ servo["elb"] = deg_to_us(ELB_MID) /\ servo["wri"] = deg_to_us(WRI_MID)
    /\ servo["gri"] = deg_to_us(GRI_MID)

AtReady ==
    /\ servo["gri"] = deg_to_us(READY_G)
    /\ \A j \in ArmJoints : servo[j] # 0
    /\ \E k \in ik(0, READY_Y, READY_Z, READY_GA) :
          /\ servo["bas"] \in pulses(k.bas_pos, BAS_MIN, BAS_MAX)
          /\ servo["shl"] \in pulses(k.shl_pos, SHL_MIN, SHL_MAX)
          /\ servo["elb"] \in pulses(k.elb_pos, ELB_MIN, ELB_MAX)
          /\ servo["wri"] \in pulses(k.wri_pos, WRI_MIN, WRI_MAX)

C10_ParkedBeforeReadyTone ==
    pc \in {"tone1", "tone2", "ready"} =>
        /\ AtMidpoints \/ AtReady
        /\ Y = READY_Y /\ Z = READY_Z /\ GA = READY_GA

(* Degenerate geometry: the wrist is on the shoulder axis (shoulder-to-    *)
(* wrist length zero) or its distance from the shoulder is outside         *)
(* [ULNA - HUMERUS, HUMERUS + ULNA], where the arguments of the acos of    *)
(* lines 285 and 295 are outside [-1, 1]; and geometry that is degenerate  *)
(* by more than the rounding of a build's floats.                          *)
Degenerate(a) ==
    \E w \in {wrist(a[1], a[2], a[3], a[4])} :
        w.far \/ w.s_w > s_w_longest(0) \/ w.s_w < s_w_shortest(0)

DegenerateBeyondRounding(a) ==
    \E w \in {wrist(a[1], a[2], a[3], a[4])} :
        w.far \/ w.s_w > s_w_longest(REACH_EPS) \/ w.s_w < s_w_shortest(REACH_EPS)

NothingWritten ==
    /\ writes = <<>>
    /\ \A j \in ArmJoints : servo[j] = 0

Accepted == Returned /\ ret = IK_SUCCESS

(* C12, as claimed: set_arm and deg_to_us perform no device call - when    *)
(* either returns, no pulse has been written and every servo is as it was  *)
(* before the call.                                                        *)
C12_SolverWritesNothing ==
    (Returned \/ pc = "converted") =>
        /\ NothingWritten
        /\ servo["gri"] = deg_to_us(READY_G)

Limits ==
    [bas |-> <<BAS_MIN, BAS_MAX>>, shl |-> <<SHL_MIN, SHL_MAX>>,
     elb |-> <<ELB_MIN, ELB_MAX>>, wri |-> <<WRI_MIN, WRI_MAX>>]

(* C12, amended: deg_to_us performs no device call, it only returns a      *)
(* pulse width.  set_arm returns only a status, IK_SUCCESS or IK_ERROR;    *)
(* when it returns IK_SUCCESS it has itself, after the range check and     *)
(* before returning, written pulses to arm-joint servos, each the pulse of *)
(* an angle within that joint's limits and each now held by its servo;     *)
(* when it returns IK_ERROR it has written nothing.  Neither call touches  *)
(* the gripper servo.                                                      *)
C12_SolverPositionsServos ==
    /\ pc = "converted" =>
          /\ ret \in SERVO_MIN_US..SERVO_MAX_US
          /\ NothingWritten
    /\ Returned => ret \in {IK_SUCCESS, IK_ERROR}
    /\ Rejected => NothingWritten
    /\ Accepted =>
          /\ pc = "line 322"
          /\ writes # <<>>
          /\ \A i \in 1..Len(writes) :
                /\ writes[i][1] \in ArmJoints
                /\ writes[i][2] \in deg_to_us(Limits[writes[i][1]][1])
                                      ..deg_to_us(Limits[writes[i][1]][2])
                /\ servo[writes[i][1]] = writes[i][2]
    /\ (Returned \/ pc = "converted") => servo["gri"] = deg_to_us(READY_G)

(* the ready pose accepted, the pulses written by the call *)
C12_Witness ==
    /\ Accepted
    /\ args = <<0, READY_Y, READY_Z, READY_GA>>
    /\ writes # <<>>
    /\ \E i \in 1..Len(writes) : servo[writes[i][1]] = writes[i][2]

(* C14: for every accepted target, forward kinematics from the joint       *)
(* angles set_arm computed (midpoint mapping undone) gives back the        *)
(* target: x, y and z within 0.1 mm and the gripper angle within 0.01      *)
(* degree; and from the three pulses it wrote, the radial distance, z and  *)
(* the gripper angle within what the rounding of the pulses to whole       *)
(* microseconds allows.                                                    *)
Along(c, len) == MulDiv(c, len, FIX)

(* tip of the gripper, as <<radial distance, height, gripper angle>>, from *)
(* the servo positions of shoulder, elbow and wrist                        *)
Forward(shl_pos, elb_pos, wri_pos) ==
    Bind([shl |-> (shl_pos - SHL_MID) + 90 * DEG,
          elb_dn |-> -(180 * DEG - (90 * DEG - (elb_pos - ELB_MID))),
          wri |-> wri_pos - WRI_MID], LAMBDA a :
    Bind([h |-> sin_cos(a.shl),
          u |-> sin_cos(a.shl + a.elb_dn),
          g |-> sin_cos(a.shl + a.elb_dn + a.wri)], LAMBDA t :
    << Along(t.h[2], Len80(HUMERUS)) + Along(t.u[2], Len80(ULNA))
          + Along(t.g[2], Len80(GRIPPER)),
       Len80(BASE_HGT) + Along(t.h[1], Len80(HUMERUS))
          + Along(t.u[1], Len80(ULNA)) + Along(t.g[1], Len80(GRIPPER)),
       a.shl + a.elb_dn + a.wri >>))

Near(u, v, tol) == abs(u - v) <= tol
PulseAngle(us) == (us - SERVO_MIN_US) * DegPerUs

AngleSlack == Len80(MM \div 10)

RoundTripAngles(a) ==
    \A k \in ik(a[1], a[2], a[3], a[4]) :
    \E tip \in {Forward(k.shl_pos, k.elb_pos, k.wri_pos)} :
    \E b \in {sin_cos(k.bas_pos - BAS_MID)} :
        /\ ~k.nan_shl /\ ~k.nan_elb
        /\ Near(Along(b[1], tip[1]), Len80(a[1]), AngleSlack)
        /\ Near(Along(b[2], tip[1]), Len80(a[2]), AngleSlack)
        /\ Near(tip[2], Len80(a[3]), AngleSlack)
        /\ Near(tip[3], a[4], DEG \div 100)

(* A pulse is a whole number of microseconds, so the angle it stands for   *)
(* is within half a microsecond - DegPerUs / 2 = 0.05 degree = pi / 3600   *)
(* radian - of the position converted.  Such an error in the shoulder      *)
(* moves the tip by at most that angle times HUMERUS + ULNA + GRIPPER, in  *)
(* the elbow times ULNA + GRIPPER, in the wrist times GRIPPER (0.99 mm in  *)
(* all), and the three add up in the gripper angle (0.15 degree).          *)
PulseSlack ==
    Len80((((HUMERUS + ULNA + GRIPPER) + (ULNA + GRIPPER) + GRIPPER) * 355)
             \div (113 * 3600))

RoundTripPulses(a, wr) ==
    \E tip \in {Forward(PulseAngle(wr[1][2]), PulseAngle(wr[2][2]),
                        PulseAngle(wr[3][2]))} :
        /\ Near(tip[1], rdist(Len80(a[1]), Len80(a[2])), PulseSlack + AngleSlack)
        /\ Near(tip[2], Len80(a[3]), PulseSlack + AngleSlack)
        /\ Near(tip[3], a[4], 3 * (DegPerUs \div 2) + DEG \div 100)

C14_RoundTrip ==
    Accepted => RoundTripAngles(args) /\ RoundTripPulses(args, writes)

(* an accepted target off the centre line, raised and with the gripper     *)
(* tilted                                                                  *)
C14_Witness ==
    /\ Accepted
    /\ args[1] # 0 /\ args[3] > 0 /\ args[4] # 0
    /\ Len(writes) = 3

(* C15: at the end of a cycle in which X (blue) is newly pressed, G is     *)
(* GRI_MIN and the last pulse written to the gripper servo is that of      *)
(* GRI_MIN, whatever G was and whether or not L1 or L2 is held.            *)
C15_BlueOpensFully ==
    (pc = "loop" /\ "BLUE" \in frame.pressed) =>
        /\ G = GRI_MIN
        /\ writes # <<>>
        /\ writes[Len(writes)] = <<"gri", deg_to_us(GRI_MIN)>>
        /\ servo["gri"] = deg_to_us(GRI_MIN)

(* X pressed while L1 is held and the gripper was not open *)
C15_Witness ==
    /\ pc = "loop"
    /\ "BLUE" \in frame.pressed /\ "L1" \in frame.held
    /\ prev.G > GRI_MIN /\ G = GRI_MIN

(* C16: once setup has parked the servos, and after every cycle, the pulse *)
(* the gripper servo holds is that of the current G.                       *)
C16_GripperTracksG ==
    pc \in {"tone1", "tone2", "ready", "loop"} => servo["gri"] = deg_to_us(G)

(* a cycle that moved G away from its initial value *)
C16_Witness ==
    /\ pc = "loop"
    /\ G # prev.G /\ G # READY_G
    /\ servo["gri"] = deg_to_us(G)

(* C17: in a cycle with L1 or L2 held the limit tone sounds exactly when G *)
(* after clamping is GRI_MIN or GRI_MAX, and in a cycle with the right     *)
(* stick's Y beyond the deadband exactly when the clamped candidate y is   *)
(* Y_MIN; with both, once for each limit reached.                          *)
LimitTones == Cardinality({i \in 1..Len(tones) : tones[i] = TONE_IK_ERROR})
JawHeld == "L1" \in frame.held \/ "L2" \in frame.held
RightStickY == abs(JS_MIDPOINT - frame.ry) > JS_DEADBAND
ClampedG ==
    IF "L1" \in frame.held THEN Within(prev.G + G_INCREMENT, GRI_MIN, GRI_MAX)
    ELSE Within(prev.G - G_INCREMENT, GRI_MIN, GRI_MAX)
JawAtLimit == JawHeld /\ ClampedG \in {GRI_MIN, GRI_MAX}
YAtLimit == RightStickY /\ cand.y = Y_MIN

C17_LimitFeedback ==
    (pc = "loop" /\ (JawHeld \/ RightStickY)) =>
        LimitTones = (IF JawAtLimit THEN 1 ELSE 0) + (IF YAtLimit THEN 1 ELSE 0)

(* cycles at the open limit with L2 held and the right stick pushed: the   *)
(* tone sounds for the jaw and not for y                                   *)
C17_Witness ==
    /\ pc = "loop"
    /\ "L2" \in frame.held /\ RightStickY
    /\ ClampedG = GRI_MIN /\ cand.y # Y_MIN
    /\ LimitTones = 1

====
